---------------------------- MODULE Spec2Model ----------------------------
(***************************************************************************)
(* A model of modest_image.ModestImage: an image artist that, before each  *)
(* draw, replaces the array handed to the renderer by a cropped, strided   *)
(* slice of the full-resolution array, and caches the strides and bounds   *)
(* of the last slice.                                                      *)
(*                                                                         *)
(* Numbers.  Axis limits are floats in the program; here a limit is an     *)
(* integer numerator over the fixed denominator LimDen (so 3 stands for    *)
(* 3/LimDen).  A stride is an exact rational <<n, d>> in lowest terms with *)
(* d > 0.  The render extent holds half-integers and is kept as numerators *)
(* over 2.  None stands for Python's None.                                 *)
(***************************************************************************)
EXTENDS Integers, Sequences, FiniteSets, TLC

VARIABLES
    _full_res,  \* self._full_res: None, or the array last given to set_data
    _sx,        \* self._sx: None, or the cached stride along x
    _sy,        \* self._sy: None, or the cached stride along y
    _bounds,    \* self._bounds: None (four Nones), or <<x0, x1, y0, y1>>
    _A,         \* self._A: None, or the array handed to the renderer
    _extent,    \* self._extent: None, or <<l, r, b, t>>, numerators over 2
    ax,         \* self.axes: the limits and pixel size the host supplies
    last,       \* the last operation; for a draw, how _scale_to_res ended
    before,     \* after a draw: the operation before it; otherwise "-"
    changed     \* the calls of self.changed() in the last operation

vars == <<_full_res, _sx, _sy, _bounds, _A, _extent, ax, last, before,
          changed>>

\* Python's None, where a number or a tuple of numbers may stand.
None == <<>>

\* Python's None, where an array may stand: the array of identity 0.
NoArray == [id |-> 0, h |-> 0, w |-> 0]
NoGrid == [src |-> 0, rows |-> 0, cols |-> 0,
           r0 |-> 0, rstep |-> 0, c0 |-> 0, cstep |-> 0]

-----------------------------------------------------------------------------
(* Bounds of the model, and the constants of the program.                  *)

\* Denominator of the axis limits: a limit l stands for l / LimDen.
LimDen == 2

\* The pixel sizes of the axes along one axis are -1, 0 and the powers of
\* two 2^1 .. 2^MaxExtLog.
MaxExtLog == 2

\* The 5. of lines 47-48: a stride is at most a fifth of the crop's span.
MinSamples == 5

\* main(): np.mgrid[0:2000, 0:2000], set_xlim(0, 1000).
MainDim == 2000
MainLim == 1000

\* The windows <<lo, hi>> (numerators over LimDen) the host may set on the
\* x axis: inside the array, wider than it, left of it, right of the small
\* array, and inverted; and those it may set on the y axis.
XWindows == {<<0, 3>>, <<3, 6>>, <<0, 13>>, <<6, 13>>, <<-4, -3>>,
             <<12, 13>>, <<3, 0>>}
YWindows == {<<0, 3>>, <<0, 13>>, <<3, 0>>}

ExtVals == {-1, 0} \cup {2 ^ k : k \in 1 .. MaxExtLog}

\* An array is known by its identity and its shape (rows h, columns w).
\* Arrays 3 and 4 are two arrays of one shape.
Arrays == {[id |-> 1, h |-> 4, w |-> 10], [id |-> 2, h |-> 10, w |-> 4],
           [id |-> 3, h |-> 10, w |-> 10], [id |-> 4, h |-> 10, w |-> 10]}

\* The inputs of main(): the 2000 x 2000 array, views of it, and surfaces
\* of a few hundred pixels.
MainArrays == {[id |-> 1, h |-> MainDim, w |-> MainDim]}
MainWindows == {<<0, MainLim * LimDen>>, <<0, MainDim * LimDen>>,
                <<MainLim * LimDen, MainDim * LimDen>>,
                <<MainLim * LimDen, 0>>}
MainExtVals == {250, 500, 1000}

-----------------------------------------------------------------------------
(* Exact rationals.                                                        *)

RECURSIVE Gcd(_, _)
Gcd(a, b) == IF b = 0 THEN a ELSE Gcd(b, a % b)

Abs(n) == IF n < 0 THEN -n ELSE n

\* n / d in lowest terms with a positive denominator (d # 0).
Rat(n, d) ==
    LET g == Gcd(Abs(n), Abs(d))
        s == IF d < 0 THEN -1 ELSE 1
    IN  <<(s * n) \div g, (s * d) \div g>>

RatLt(p, q) == p[1] * q[2] < q[1] * p[2]
RatLe(p, q) == p[1] * q[2] <= q[1] * p[2]

One == <<1, 1>>

-----------------------------------------------------------------------------
(* The arithmetic of _scale_to_res.                                        *)

\* int(v) of a float v = n / LimDen: truncation toward zero.
int(n) == IF n >= 0 THEN n \div LimDen ELSE -((-n) \div LimDen)

PyMax(a, b) == IF b > a THEN b ELSE a
PyMin(a, b) == IF b < a THEN b ELSE a

\* Lines 41-45 for one axis: the view [lo, hi] padded by its own span,
\* clipped to [0, n], truncated.  lo and hi are numerators over LimDen.
CropLo(lo, hi) == int(PyMax(0, lo - (hi - lo)))
CropHi(lo, hi, n) == int(PyMin(n * LimDen, hi + (hi - lo)))

\* As Quot, with the operands exchanged: ext[0] / dx.
QuotSwapped(d, e) == [k |-> "fin", v |-> Rat(LimDen * e, d)]

\* dx / ext[0] of numpy floats: a division by zero raises nothing and gives
\* inf, -inf or nan.
Quot(d, e) ==
    IF e # 0 THEN [k |-> "fin", v |-> Rat(d, LimDen * e)]
    ELSE IF d > 0 THEN [k |-> "inf"]
    ELSE IF d < 0 THEN [k |-> "-inf"]
    ELSE [k |-> "nan"]

\* As MinWith, without the cap a.
MinWithUncapped(a, q) ==
    IF q.k = "fin" THEN q ELSE [k |-> "fin", v |-> a]

\* min(a, q) for a finite a: q if q < a, else a (a comparison with nan is
\* false).
MinWith(a, q) ==
    CASE q.k = "fin"  -> IF RatLt(q.v, a) THEN q ELSE [k |-> "fin", v |-> a]
      [] q.k = "-inf" -> q
      [] OTHER        -> [k |-> "fin", v |-> a]

\* max(1, m): m if m > 1, else 1.
MaxOne(m) ==
    IF m.k = "fin" /\ RatLt(One, m.v) THEN m.v ELSE One

\* Lines 47-48 for one axis: c0, c1 the crop, d the view span (numerator
\* over LimDen), e the pixel size.
Stride(c0, c1, d, e) == MaxOne(MinWith(Rat(c1 - c0, MinSamples), Quot(d, e)))

\* The step of a slice whose step is the float s >= 1: its integer part.
Step(s) == s[1] \div s[2]

\* Python's slice.indices for a positive step, on an axis of length n.
SliceStart(n, start) ==
    IF start < 0 THEN PyMax(0, start + n) ELSE PyMin(n, start)
SliceStop(n, stop) ==
    IF stop < 0 THEN PyMax(0, stop + n) ELSE PyMin(n, stop)
SliceLen(n, start, stop, step) ==
    LET a == SliceStart(n, start)
        b == SliceStop(n, stop)
    IN  IF b > a THEN ((b - a - 1) \div step) + 1 ELSE 0

\* The locals of _scale_to_res in the current state (lines 36-48).
Ldx == ax.xlim[2] - ax.xlim[1]
Ldy == ax.ylim[2] - ax.ylim[1]
Ly0 == CropLo(ax.ylim[1], ax.ylim[2])
Ly1 == CropHi(ax.ylim[1], ax.ylim[2], _full_res.h)
Lx0 == CropLo(ax.xlim[1], ax.xlim[2])
Lx1 == CropHi(ax.xlim[1], ax.xlim[2], _full_res.w)
Lsy == Stride(Ly0, Ly1, Ldy, ax.ext[2])
Lsx == Stride(Lx0, Lx1, Ldx, ax.ext[1])

\* As CacheHit, without the test of the bounds.
CacheHitStridesOnly == Lsx = _sx /\ Lsy = _sy

\* Lines 51-53.  A comparison of a number with None: == is false; Python 2
\* orders None below every number.
CacheHit ==
    /\ Lsx = _sx
    /\ Lsy = _sy
    /\ IF _bounds = None
       THEN FALSE  \* x0 >= None holds, x1 <= None does not
       ELSE /\ Lx0 >= _bounds[1]
            /\ Lx1 <= _bounds[2]
            /\ Ly0 >= _bounds[3]
            /\ Ly1 <= _bounds[4]

\* Line 56: self._full_res[y0:y1:sy, x0:x1:sx], as the view numpy makes:
\* element (i, j) of it is element (r0 + i*rstep, c0 + j*cstep) of src.
SliceOf(arr, y0, y1, sy, x0, x1, sx) ==
    [src   |-> arr.id,
     rows  |-> SliceLen(arr.h, y0, y1, Step(sy)),
     cols  |-> SliceLen(arr.w, x0, x1, Step(sx)),
     r0    |-> SliceStart(arr.h, y0),
     rstep |-> Step(sy),
     c0    |-> SliceStart(arr.w, x0),
     cstep |-> Step(sx)]

\* The whole array, as AxesImage.set_data stores it in self._A.
Whole(arr) ==
    [src |-> arr.id, rows |-> arr.h, cols |-> arr.w,
     r0 |-> 0, rstep |-> 1, c0 |-> 0, cstep |-> 1]

\* As RealHi, one short.
RealHiLast(c0, len) == c0 + len - 1

\* Lines 57-58: the bounds recomputed from the slice's shape.
RealHi(c0, len) == c0 + len

\* As ExtentOf, without the half-pixel shift.
ExtentOfEdges(x0, x1, y0, y1) == <<2 * x0, 2 * x1, 2 * y0, 2 * y1>>

\* Line 60: [x0 - .5, x1 - .5, y0 - .5, y1 - .5], as numerators over 2.
ExtentOf(x0, x1, y0, y1) == <<2 * x0 - 1, 2 * x1 - 1, 2 * y0 - 1, 2 * y1 - 1>>

-----------------------------------------------------------------------------
(* The operations.                                                         *)

\* __init__ (lines 21-25) on axes in some view.
Init ==
    /\ _full_res = NoArray
    /\ _sx = None
    /\ _sy = None
    /\ _bounds = None
    /\ _A = NoGrid
    /\ _extent = None
    /\ ax \in [xlim : {<<0, 3>>}, ylim : {<<0, 3>>}, ext : {<<2, 2>>}]
    /\ last = "init"
    /\ before = "-"
    /\ changed = 0

\* As set_data, without lines 28 and 30: only _full_res is replaced.
set_data_stale(arr) ==
    /\ _full_res' = arr
    /\ last' = "set_data"
    /\ before' = "-"
    /\ changed' = 0
    /\ UNCHANGED <<_sx, _sy, _bounds, _A, _extent, ax>>

\* As set_data, without line 30: the cached strides are kept.
set_data_keep(arr) ==
    /\ _A' = Whole(arr)
    /\ _full_res' = arr
    /\ last' = "set_data"
    /\ before' = "-"
    /\ changed' = 0
    /\ UNCHANGED <<_sx, _sy, _bounds, _extent, ax>>

\* set_data(A), lines 27-30.
set_data(arr) ==
    /\ _A' = Whole(arr)
    /\ _full_res' = arr
    /\ _sx' = None
    /\ _sy' = None
    /\ last' = "set_data"
    /\ before' = "-"
    /\ changed' = 0
    /\ UNCHANGED <<_bounds, _extent, ax>>

\* As Recompute, but the strides stored at lines 61-62 lack the max(1, .) of
\* lines 47-48.
RecomputeStoresUnfloored ==
    LET g  == SliceOf(_full_res, Ly0, Ly1, Lsy, Lx0, Lx1, Lsx)
        x1 == RealHi(Lx0, g.cols)
        y1 == RealHi(Ly0, g.rows)
        raw(c0, c1, d, e) ==
            LET m == MinWith(Rat(c1 - c0, MinSamples), Quot(d, e))
            IN  IF m.k = "fin" THEN m.v ELSE One
    IN  /\ _A' = g
        /\ _extent' = ExtentOf(Lx0, x1, Ly0, y1)
        /\ _sx' = raw(Lx0, Lx1, Ldx, ax.ext[1])
        /\ _sy' = raw(Ly0, Ly1, Ldy, ax.ext[2])
        /\ _bounds' = <<Lx0, x1, Ly0, y1>>
        /\ last' = "miss"
        /\ changed' = 1
        /\ UNCHANGED <<_full_res, ax>>

\* As Recompute, without lines 61-63: nothing is cached.
RecomputeNoStore ==
    LET g  == SliceOf(_full_res, Ly0, Ly1, Lsy, Lx0, Lx1, Lsx)
        x1 == RealHi(Lx0, g.cols)
        y1 == RealHi(Ly0, g.rows)
    IN  /\ _A' = g
        /\ _extent' = ExtentOf(Lx0, x1, Ly0, y1)
        /\ last' = "miss"
        /\ changed' = 1
        /\ UNCHANGED <<_sx, _sy, _bounds, _full_res, ax>>

\* Lines 56-64: the recomputation.
Recompute ==
    LET g  == SliceOf(_full_res, Ly0, Ly1, Lsy, Lx0, Lx1, Lsx)
        x1 == RealHi(Lx0, g.cols)
        y1 == RealHi(Ly0, g.rows)
    IN  /\ _A' = g
        /\ _extent' = ExtentOf(Lx0, x1, Ly0, y1)
        /\ _sx' = Lsx
        /\ _sy' = Lsy
        /\ _bounds' = <<Lx0, x1, Ly0, y1>>
        /\ last' = "miss"
        /\ changed' = 1  \* line 64
        /\ UNCHANGED <<_full_res, ax>>

\* As _scale_to_res, but a hit stores the requested crop as the bounds.
ScaleToResHitStores ==
    IF _full_res = NoArray
    THEN /\ last' = "AttributeError"
         /\ changed' = 0
         /\ UNCHANGED <<_full_res, _sx, _sy, _bounds, _A, _extent, ax>>
    ELSE IF CacheHit
    THEN /\ last' = "hit"
         /\ changed' = 0
         /\ _bounds' = <<Lx0, Lx1, Ly0, Ly1>>
         /\ UNCHANGED <<_full_res, _sx, _sy, _A, _extent, ax>>
    ELSE Recompute

\* The outcomes of _scale_to_res: it returns at line 54 ("hit"), it runs to
\* line 64 and calls changed() ("miss"), or it raises.
Drawn == {"hit", "miss", "AttributeError"}

\* _scale_to_res, lines 32-64.
_scale_to_res ==
    IF _full_res = NoArray
    THEN \* line 42: None has no attribute shape
         /\ last' = "AttributeError"
         /\ changed' = 0
         /\ UNCHANGED <<_full_res, _sx, _sy, _bounds, _A, _extent, ax>>
    ELSE IF CacheHit
    THEN /\ last' = "hit"
         /\ changed' = 0
         /\ UNCHANGED <<_full_res, _sx, _sy, _bounds, _A, _extent, ax>>
    ELSE Recompute

\* draw, lines 66-68: _scale_to_res, then the renderer takes _A and _extent.
draw ==
    /\ _scale_to_res
    /\ before' = IF last \in Drawn THEN "draw" ELSE last

\* The host moves the view or resizes the axes between draws.
ViewOp(xl, yl, ex) ==
    /\ ax' = [xlim |-> xl, ylim |-> yl, ext |-> ex]
    /\ ax' # ax
    /\ last' = "view"
    /\ before' = "-"
    /\ changed' = 0
    /\ UNCHANGED <<_full_res, _sx, _sy, _bounds, _A, _extent>>

set_xlim(X) == \E xl \in X : ViewOp(xl, ax.ylim, ax.ext)
set_ylim(Y) == \E yl \in Y : ViewOp(ax.xlim, yl, ax.ext)
resize(E) == \E ew, eh \in E : ViewOp(ax.xlim, ax.ylim, <<ew, eh>>)

Next ==
    \/ \E arr \in Arrays : set_data(arr)
    \/ draw
    \/ set_xlim(XWindows)
    \/ set_ylim(YWindows)
    \/ resize(ExtVals)

Spec == Init /\ [][Next]_vars

\* The same operations on the inputs of main() (lines 71-100).
NextMain ==
    \/ \E arr \in MainArrays : set_data(arr)
    \/ draw
    \/ set_xlim(MainWindows)
    \/ set_ylim(MainWindows)
    \/ resize(MainExtVals)

SpecMain == Init /\ [][NextMain]_vars

-----------------------------------------------------------------------------
(* Properties.                                                             *)

\* The fields _scale_to_res writes.
cache == <<_sx, _sy, _bounds, _A, _extent>>

\* set_data has given an array; the axes have a positive pixel size.
Loaded == _full_res # NoArray
Positive == ax.ext[1] > 0 /\ ax.ext[2] > 0

\* C1: after a draw, a second draw of the same view and surface hits: it
\* slices nothing, leaves the array and extent handed to the renderer as
\* they were, and does not call changed().
C1_Idempotent ==
    [][(draw /\ last \in {"hit", "miss"})
         => (last' = "hit" /\ _A' = _A /\ _extent' = _extent)]_vars

\* C2: once a slice is cached, a draw whose strides equal the cached ones
\* and whose visible window lies within the cached bounds hits.
VisibleWithin ==
    /\ ax.xlim[1] <= ax.xlim[2]
    /\ ax.ylim[1] <= ax.ylim[2]
    /\ ax.xlim[1] >= _bounds[1] * LimDen
    /\ ax.xlim[2] <= _bounds[2] * LimDen
    /\ ax.ylim[1] >= _bounds[3] * LimDen
    /\ ax.ylim[2] <= _bounds[4] * LimDen
C2_Containment ==
    [][(draw /\ Loaded /\ _sx # None /\ Lsx = _sx /\ Lsy = _sy
          /\ VisibleWithin)
         => (last' = "hit" /\ cache' = cache)]_vars

\* C3: the bounds a recomputation stores lie within the array:
\* 0 <= x0 <= x1 <= width and 0 <= y0 <= y1 <= height.
C3_BoundsInArray ==
    last = "miss" =>
        /\ 0 <= _bounds[1] /\ _bounds[1] <= _bounds[2]
        /\ _bounds[2] <= _full_res.w
        /\ 0 <= _bounds[3] /\ _bounds[3] <= _bounds[4]
        /\ _bounds[4] <= _full_res.h

\* C4: for the 2000 x 2000 array, the view (0, 1000, 0, 1000) and a surface
\* of 500 x 500 pixels, a recomputation has stride 2 on both axes, makes a
\* 1000 x 1000 grid and sets the extent (-0.5, 1999.5, -0.5, 1999.5).
MainView ==
    /\ _full_res \in MainArrays
    /\ ax = [xlim |-> <<0, MainLim * LimDen>>,
             ylim |-> <<0, MainLim * LimDen>>, ext |-> <<500, 500>>]
C4_MainExample ==
    (last = "miss" /\ MainView) =>
        /\ _sx = <<2, 1>> /\ _sy = <<2, 1>>
        /\ _A.rows = 1000 /\ _A.cols = 1000
        /\ _extent = ExtentOf(0, MainDim, 0, MainDim)

\* C5: the first draw after set_data recomputes: it slices the new array,
\* caches the computed strides and the bounds of the slice, and calls
\* changed().
C5_FirstDrawRecomputes ==
    (last \in Drawn /\ before = "set_data") =>
        /\ last = "miss"
        /\ _A = SliceOf(_full_res, Ly0, Ly1, Lsy, Lx0, Lx1, Lsx)
        /\ _sx = Lsx /\ _sy = Lsy
        /\ _bounds = <<Lx0, Lx0 + _A.cols, Ly0, Ly0 + _A.rows>>
C5_Witness ==
    /\ last = "miss" /\ before = "set_data"
    /\ _A.src = _full_res.id /\ _A.cols > 0 /\ _A.rows > 0

\* C6, as claimed: a recomputation with stride 1 on both axes sets the
\* extent to the requested crop (x0, x1, y0, y1) less half a pixel.
Stride1Miss == last = "miss" /\ _sx = One /\ _sy = One
DoubledSx == Stride(Lx0, Lx1, Ldx, 2 * ax.ext[1])
DoubledSy == Stride(Ly0, Ly1, Ldy, 2 * ax.ext[2])
C7_StrideMonotone ==
    (last \in {"hit", "miss"} /\ Positive) =>
        /\ RatLe(DoubledSx, _sx)
        /\ RatLe(DoubledSy, _sy)
C7_Witness ==
    /\ last = "miss" /\ Positive
    /\ RatLt(DoubledSx, _sx)
    /\ RatLt(DoubledSy, _sy)

\* C8: a draw on a surface with a pixel size <= 0 recomputes nothing and
\* leaves the cached fields as they were.
C8_GuardedSurface ==
    [][(draw /\ ~Positive) => (last' # "miss" /\ cache' = cache)]_vars

\* C9: a draw whose requested crop lies within the cached bounds, and
\* whose computed strides are no finer than the cached ones, hits.
CoarserAndCovered ==
    /\ Loaded /\ _sx # None /\ _bounds # None
    /\ RatLe(_sx, Lsx) /\ RatLe(_sy, Lsy)
    /\ Lx0 >= _bounds[1] /\ Lx1 <= _bounds[2]
    /\ Ly0 >= _bounds[3] /\ Ly1 <= _bounds[4]
C9_ReuseAtFinerStride ==
    [][(draw /\ CoarserAndCovered) => (last' = "hit" /\ cache' = cache)]_vars

\* C10, as claimed: every draw on a positive surface ends without an error
\* and with strides and bounds cached; set_data leaves the strides None.
Cached == _sx # None /\ _sy # None /\ _bounds # None
C10_DrawAlwaysCaches ==
    /\ (last \in Drawn /\ Positive) => (last \in {"hit", "miss"} /\ Cached)
    /\ last = "set_data" => (_sx = None /\ _sy = None)

\* C10, amended: every draw on a positive surface, once set_data has given
\* an array, ends without an error and with strides and bounds cached;
\* set_data leaves the strides None.
C10_DrawCachesOnceLoaded ==
    /\ (last \in Drawn /\ Positive /\ Loaded)
         => (last \in {"hit", "miss"} /\ Cached)
    /\ last = "set_data" => (_sx = None /\ _sy = None)
C10_Witness ==
    /\ last = "miss" /\ before = "set_data" /\ Positive /\ Cached
    /\ ax.xlim[1] > ax.xlim[2]

\* C11: a draw of an inverted view (x_max < x_min or y_max < y_min) that
\* recomputes makes the grid of the view with its limits swapped; it does
\* not compute the crop from the limits as given.  (A rejected draw would
\* not recompute.)
Swap(w) == IF w[1] > w[2] THEN <<w[2], w[1]>> ELSE w
GridOf(arr, xl, yl, ex) ==
    LET y0 == CropLo(yl[1], yl[2])
        y1 == CropHi(yl[1], yl[2], arr.h)
        x0 == CropLo(xl[1], xl[2])
        x1 == CropHi(xl[1], xl[2], arr.w)
    IN  SliceOf(arr, y0, y1, Stride(y0, y1, yl[2] - yl[1], ex[2]),
                     x0, x1, Stride(x0, x1, xl[2] - xl[1], ex[1]))
InvertedView == ax.xlim[1] > ax.xlim[2] \/ ax.ylim[1] > ax.ylim[2]
C11_InvertedNormalized ==
    (last = "miss" /\ InvertedView)
        => _A = GridOf(_full_res, Swap(ax.xlim), Swap(ax.ylim), ax.ext)

\* C12: a draw of a loaded artist hits exactly when the computed strides
\* equal the cached strides on both axes and the requested crop lies within
\* the cached bounds; in every other case it recomputes.
StridesEqual == _sx # None /\ _sy # None /\ Lsx = _sx /\ Lsy = _sy
CropWithinCached ==
    /\ _bounds # None
    /\ Lx0 >= _bounds[1] /\ Lx1 <= _bounds[2]
    /\ Ly0 >= _bounds[3] /\ Ly1 <= _bounds[4]
C12_HitTest ==
    [][(last' \in {"hit", "miss", "AttributeError"} /\ Loaded /\ draw)
         => IF StridesEqual /\ CropWithinCached
            THEN last' = "hit" /\ cache' = cache
            ELSE last' = "miss" /\ _sx' = Lsx /\ _sy' = Lsy]_vars
C12_Witness ==
    /\ last = "hit" /\ before = "view"
    /\ <<Lx0, Lx1, Ly0, Ly1>> # _bounds

\* C13: a draw that hits changes none of the cached strides, the cached
\* bounds, the grid, the extent and the array; and the cached bounds change
\* in no step but a recomputation.
C13_HitIsNoOp ==
    [][/\ last' = "hit" => (cache' = cache /\ _full_res' = _full_res)
       /\ _bounds' # _bounds => last' = "miss"]_vars
C13_Witness ==
    /\ last = "hit" /\ before = "view"
    /\ Step(_sx) = 1 /\ _A.cols > 0 /\ _A.rows > 0

\* C14: right after set_data the cached strides are None and the cached
\* bounds are the unset value they had after construction.
C14_SetDataResetsAll ==
    last = "set_data" => (_sx = None /\ _sy = None /\ _bounds = None)

\* C15: a draw that misses leaves the slice [y0:y1:sy, x0:x1:sx] of the
\* array, the computed strides, the bounds (x0, x0 + columns, y0, y0 + rows)
\* of that slice, and the extent of those bounds less half a pixel, and has
\* called changed() once; a draw that hits has not called changed().
C15_MissStoresRealized ==
    /\ last = "miss" =>
          /\ _A = SliceOf(_full_res, Ly0, Ly1, Lsy, Lx0, Lx1, Lsx)
          /\ _sx = Lsx /\ _sy = Lsy
          /\ _bounds = <<Lx0, Lx0 + _A.cols, Ly0, Ly0 + _A.rows>>
          /\ _extent = <<2 * _bounds[1] - 1, 2 * _bounds[2] - 1,
                         2 * _bounds[3] - 1, 2 * _bounds[4] - 1>>
          /\ changed = 1
    /\ last = "hit" => changed = 0
C15_Witness ==
    /\ last = "miss" /\ changed = 1
    /\ Step(_sx) > 1 /\ _bounds[2] < Lx1

\* C16: after a draw on a positive surface, whatever the view (inverted and
\* empty crops included), the cached strides are both at least 1.
C16_StrideAtLeastOne ==
    (last \in {"hit", "miss"} /\ Positive)
        => (RatLe(One, _sx) /\ RatLe(One, _sy))
C16_Witness ==
    /\ last = "miss" /\ Positive
    /\ Lx1 < Lx0 /\ _A.rows = 0
    /\ _sx = One /\ _sy = One

\* C17: on an axis whose crop spans at least 5 samples, a recomputation's
\* stride is at most a fifth of the span and its grid has at least 5 samples
\* on that axis, whatever the view and the surface.
C17_StrideAtMostFifth ==
    last = "miss" =>
        /\ (Lx1 - Lx0 >= MinSamples) =>
              (RatLe(_sx, Rat(Lx1 - Lx0, MinSamples)) /\ _A.cols >= MinSamples)
        /\ (Ly1 - Ly0 >= MinSamples) =>
              (RatLe(_sy, Rat(Ly1 - Ly0, MinSamples)) /\ _A.rows >= MinSamples)
C17_Witness ==
    /\ last = "miss" /\ Lx1 - Lx0 >= MinSamples
    /\ RatLt(One, _sx) /\ _sx = Rat(Lx1 - Lx0, MinSamples)
    /\ _A.cols = MinSamples

\* C18: after a draw of a view that is not inverted and meets the array, the
\* extent covers the view intersected with the array on both axes.  The
\* array's samples end at width - 1/2 and height - 1/2, and the intersection
\* is taken up to there.  Extents are numerators over 2, limits over LimDen.
VisibleLo(w) == 2 * PyMax(0, w[1])
VisibleHi(w, n) == PyMin((2 * n - 1) * LimDen, 2 * w[2])
C18_ExtentCoversVisible ==
    (/\ last \in {"hit", "miss"}
     /\ ax.xlim[1] <= ax.xlim[2] /\ ax.ylim[1] <= ax.ylim[2]
     /\ VisibleLo(ax.xlim) <= VisibleHi(ax.xlim, _full_res.w)
     /\ VisibleLo(ax.ylim) <= VisibleHi(ax.ylim, _full_res.h))
        => /\ _extent[1] * LimDen <= VisibleLo(ax.xlim)
           /\ _extent[2] * LimDen >= VisibleHi(ax.xlim, _full_res.w)
           /\ _extent[3] * LimDen <= VisibleLo(ax.ylim)
           /\ _extent[4] * LimDen >= VisibleHi(ax.ylim, _full_res.h)

\* C19: the grid a draw leaves is a slice of the array most recently given
\* to set_data.
C19_GridOfLatestArray ==
    last \in {"hit", "miss"} =>
        /\ _A.src = _full_res.id
        /\ _A.rstep >= 1 /\ _A.cstep >= 1
        /\ _A.rows <= _full_res.h /\ _A.cols <= _full_res.w
C19_Witness ==
    /\ last = "miss" /\ before = "set_data"
    /\ _full_res.id = 4 /\ _A.src = 4
    /\ _bounds = <<0, 3, 0, 3>>

=============================================================================
